---- MODULE Spec2Model ----
(***************************************************************************)
(* Beancount -> ERPNext migration (src/src/migration/beancount_migrator.py *)
(* and validate_journal_entry of src/src/erpnext_client.py).               *)
(*                                                                         *)
(* Ledger text is a sequence of lines; a line is an indentation flag and   *)
(* its whitespace-separated tokens.  Amounts are integers in hundredths    *)
(* of a currency unit (100 is 1.00), so the tolerance 0.01 is 1.           *)
(* Nullable Python values are sequences: <<>> is None, <<x>> is x.         *)
(* A text (account path, currency) is the sequence of its ':'-separated    *)
(* segments: Assets:Cash:ICICI is <<"Assets", "Cash", "ICICI">>.           *)
(***************************************************************************)
EXTENDS Integers, Sequences, FiniteSets, TLC

\* ------------------------------------------------------------------------
\* Bounds of the model
\* ------------------------------------------------------------------------
MaxLines == 4

MaxRuns == 2

\* failures the environment (file system, backend) may produce in a behaviour
MaxFaults == 1

\* ------------------------------------------------------------------------
\* Program constants
\* ------------------------------------------------------------------------
\* abs(total_debit - total_credit) > 0.01, in hundredths
Tolerance == 1

None == <<>>

Some(x) == <<x>>

\* the base currency literal 'INR' of _migrate_transactions, as a text
BaseCurrency == <<"INR">>

\* company_suffix given to the migrator ("PT" in the usage example)
CompanySuffix == "PT"

\* ------------------------------------------------------------------------
\* Tokens and lines of the ledger text
\* ------------------------------------------------------------------------
\* t: the token's lexical kind; s: its text as ':'-separated segments;
\* n: its value under float() (kind "num" only)
Tok(t, s, n) == [t |-> t, s |-> s, n |-> n]

TDate(d) == Tok("date", <<d>>, 0)

\* a word or account path: segments of \w characters, possibly with '-'
TWord(p) == Tok("word", p, 0)

\* a numeric literal, thousands separators already removable by replace(',', '')
TNum(k) == Tok("num", <<"0">>, k)

\* a double-quoted string
TStr(x) == Tok("str", <<x>>, 0)

\* punctuation and other non-numeric, non-word tokens: * @ ; key:
TSym(x) == Tok("sym", <<x>>, 0)

Line(indent, toks) == [indent |-> indent, toks |-> toks]

IsBlank(line) == line.toks = <<>>

\* ------------------------------------------------------------------------
\* Sequence helpers
\* ------------------------------------------------------------------------
Abs(x) == IF x < 0 THEN -x ELSE x

RECURSIVE SeqsUpTo(_, _)
SeqsUpTo(S, n) ==
    IF n = 0 THEN {<<>>}
    ELSE LET shorter == SeqsUpTo(S, n - 1)
         IN  shorter \cup {Append(q, x) : q \in {r \in shorter : Len(r) = n - 1}, x \in S}

\* ------------------------------------------------------------------------
\* BeancountParser._classify_account
\* ------------------------------------------------------------------------
\* the substrings 'Cash', 'Bank', 'Receivable', 'Payable' a segment contains
SegKeywords(seg) ==
    CASE seg = "Cash" -> {"Cash"}
      [] seg = "Bank" -> {"Bank"}
      [] seg = "AccountsReceivable" -> {"Receivable"}
      [] seg = "AccountsPayable" -> {"Payable"}
      [] seg = "CashInHand" -> {"Cash"}
      [] OTHER -> {}

PathContains(path, kw) == \E i \in 1..Len(path) : kw \in SegKeywords(path[i])

\* account_name.startswith('Assets:'): first segment and at least one ':'
StartsWithRoot(path, root) == Len(path) >= 2 /\ path[1] = root

\* the keywords tested before the root: Cash under any root is a Bank
classify_by_keyword_first(path) ==
    IF PathContains(path, "Cash") \/ PathContains(path, "Bank") THEN "Bank"
    ELSE IF StartsWithRoot(path, "Assets") THEN
        IF PathContains(path, "Receivable") THEN "Receivable" ELSE "Asset"
    ELSE IF StartsWithRoot(path, "Liabilities") THEN
        IF PathContains(path, "Payable") THEN "Payable" ELSE "Liability"
    ELSE IF StartsWithRoot(path, "Income") THEN "Income"
    ELSE IF StartsWithRoot(path, "Expenses") THEN "Expense"
    ELSE IF StartsWithRoot(path, "Equity") THEN "Equity"
    ELSE "Unknown"

classify_account(path) ==
    IF StartsWithRoot(path, "Assets") THEN
        IF PathContains(path, "Cash") \/ PathContains(path, "Bank") THEN "Bank"
        ELSE IF PathContains(path, "Receivable") THEN "Receivable"
        ELSE "Asset"
    ELSE IF StartsWithRoot(path, "Liabilities") THEN
        IF PathContains(path, "Payable") THEN "Payable" ELSE "Liability"
    ELSE IF StartsWithRoot(path, "Income") THEN "Income"
    ELSE IF StartsWithRoot(path, "Expenses") THEN "Expense"
    ELSE IF StartsWithRoot(path, "Equity") THEN "Equity"
    ELSE "Unknown"

\* ------------------------------------------------------------------------
\* Regular-expression pieces of the parser
\* ------------------------------------------------------------------------
\* the longest \w+ prefix of a segment ('-' is not a \w character)
WordPrefixSeg(seg) ==
    CASE seg = "Opening-Balances" -> "Opening"
      [] OTHER -> seg

\* the index of the first segment holding a non-\w character, 0 if none
RECURSIVE FirstNonWord(_, _)
FirstNonWord(path, i) ==
    IF i > Len(path) THEN 0
    ELSE IF WordPrefixSeg(path[i]) # path[i] THEN i
    ELSE FirstNonWord(path, i + 1)

\* what ([\w:]+) captures of a word token
RegexPath(path) ==
    LET k == FirstNonWord(path, 1)
    IN  IF k = 0 THEN path
        ELSE Append(SubSeq(path, 1, k - 1), WordPrefixSeg(path[k]))

IsWord(tok, w) == tok.t = "word" /\ tok.s = <<w>>

\* ^\d{4}-\d{2}-\d{2}\s+commodity\s+(\w+)
IsCommodityLine(line) ==
    /\ ~line.indent
    /\ Len(line.toks) >= 3
    /\ line.toks[1].t = "date"
    /\ IsWord(line.toks[2], "commodity")
    /\ line.toks[3].t = "word"

\* ^\d{4}-\d{2}-\d{2}\s+open\s+([\w:]+)(?:\s+(\w+))?
IsOpenLine(line) ==
    /\ ~line.indent
    /\ Len(line.toks) >= 3
    /\ line.toks[1].t = "date"
    /\ IsWord(line.toks[2], "open")
    /\ line.toks[3].t = "word"

\* group 2 of the open pattern: present only when group 1 reached the end
\* of its token and a token starting with \w follows
OpenCurrency(line) ==
    IF /\ FirstNonWord(line.toks[3].s, 1) = 0
       /\ Len(line.toks) >= 4
       /\ line.toks[4].t = "word"
    THEN Some(<<WordPrefixSeg(line.toks[4].s[1])>>)
    ELSE None

\* ^(\d{4}-\d{2}-\d{2})\s+price\s+(\w+)\s+([\d.]+)\s+(\w+)
\* ([\d.]+) takes an unsigned literal, or a digits-and-dots token that
\* float() rejects (kind "dots")
IsPriceLine(line) ==
    /\ ~line.indent
    /\ Len(line.toks) >= 5
    /\ line.toks[1].t = "date"
    /\ IsWord(line.toks[2], "price")
    /\ line.toks[3].t = "word" /\ Len(line.toks[3].s) = 1
    /\ \/ line.toks[4].t = "num" /\ line.toks[4].n >= 0
       \/ line.toks[4].t = "dots"
    /\ line.toks[5].t = "word"

\* ^(\d{4}-\d{2}-\d{2})\s+\*\s+"([^"]+)"\s*\n
IsHeader(line) ==
    /\ ~line.indent
    /\ Len(line.toks) = 3
    /\ line.toks[1].t = "date"
    /\ line.toks[2] = TSym("*")
    /\ line.toks[3].t = "str"

\* \s* and \s+ run over line ends: blank lines are whitespace
RECURSIVE SkipBlanks(_, _)
SkipBlanks(content, j) ==
    IF j <= Len(content) /\ IsBlank(content[j]) THEN SkipBlanks(content, j + 1) ELSE j

\* ((?:^\s+.+\n)*) from line j: an indented line is taken; a run of blank
\* lines is taken together with the next non-blank line, indented or not.
\* The result is the index of the first line after the block.
RECURSIVE BlockEnd(_, _)
BlockEnd(content, j) ==
    IF j > Len(content) THEN j
    ELSE IF IsBlank(content[j]) THEN
        LET k == SkipBlanks(content, j)
        IN  IF k > Len(content) THEN j ELSE BlockEnd(content, k + 1)
    ELSE IF content[j].indent THEN BlockEnd(content, j + 1)
    ELSE j

\* ------------------------------------------------------------------------
\* BeancountParser
\* ------------------------------------------------------------------------
\* BeancountParser.__init__; accounts and prices are dicts, kept as
\* sequences in insertion order with unique keys
NewParser ==
    [accounts |-> <<>>, commodities |-> {}, transactions |-> <<>>, prices |-> <<>>]

\* the first value of a key kept: a later value for the key is dropped
DictKeepFirst(d, held, value) ==
    IF held # {} THEN d ELSE Append(d, value)

\* d[key] = value on a dict kept as a sequence: an existing key keeps its place
\* (held: the positions of d that hold the key)
DictPut(d, held, value) ==
    IF held # {}
    THEN [i \in 1..Len(d) |-> IF i \in held THEN value ELSE d[i]]
    ELSE Append(d, value)

RECURSIVE parse_commodities(_, _, _)
parse_commodities(content, i, commodities) ==
    IF i > Len(content) THEN commodities
    ELSE IF IsCommodityLine(content[i])
    THEN parse_commodities(content, i + 1,
             commodities \cup {WordPrefixSeg(content[i].toks[3].s[1])})
    ELSE parse_commodities(content, i + 1, commodities)

RECURSIVE parse_accounts(_, _, _)
parse_accounts(content, i, accounts) ==
    IF i > Len(content) THEN accounts
    ELSE IF IsOpenLine(content[i]) THEN
        LET account_name == RegexPath(content[i].toks[3].s)
            held == {k \in 1..Len(accounts) : accounts[k].name = account_name}
            entry == [name |-> account_name,
                      currency |-> OpenCurrency(content[i]),
                      type |-> classify_account(account_name)]
        IN  parse_accounts(content, i + 1, DictPut(accounts, held, entry))
    ELSE parse_accounts(content, i + 1, accounts)

\* float(match.group(3)) raises ValueError on a token such as 1.2.3
RECURSIVE parse_prices(_, _, _)
parse_prices(content, i, prices) ==
    IF i > Len(content) THEN [ok |-> TRUE, prices |-> prices]
    ELSE IF IsPriceLine(content[i]) THEN
        IF content[i].toks[4].t # "num" THEN [ok |-> FALSE, prices |-> prices]
        ELSE LET date == content[i].toks[1].s[1]
                 from_curr == <<content[i].toks[3].s[1]>>
                 held == {k \in 1..Len(prices) :
                             prices[k].date = date /\ prices[k].from = from_curr}
                 entry == [date |-> date, from |-> from_curr,
                           rate |-> content[i].toks[4].n,
                           to |-> <<WordPrefixSeg(content[i].toks[5].s[1])>>]
             IN  parse_prices(content, i + 1, DictPut(prices, held, entry))
    ELSE parse_prices(content, i + 1, prices)

\* one line of postings_text: "skip", "error" (float() raised ValueError)
\* or "posting"
PostingLineKind(line) ==
    IF IsBlank(line) THEN "skip"
    ELSE IF line.toks[1] = TSym(";") THEN "skip"
    ELSE IF Len(line.toks) < 2 THEN "skip"
    ELSE IF /\ Len(line.toks) > 3 /\ line.toks[4] = TSym("@")
            /\ Len(line.toks) > 4 /\ line.toks[5].t # "num" THEN "error"
    ELSE IF line.toks[2].t # "num" THEN "error"
    ELSE "posting"

PostingOf(line) ==
    LET parts == line.toks
        hasAt == Len(parts) > 3 /\ parts[4] = TSym("@")
    IN  [account |-> parts[1].s,
         amount |-> parts[2].n,
         currency |-> IF Len(parts) > 2 THEN Some(parts[3].s) ELSE None,
         exchange_rate |-> IF hasAt /\ Len(parts) > 4 THEN Some(parts[5].n) ELSE None,
         target_currency |-> IF hasAt /\ Len(parts) > 5 THEN Some(parts[6].s) ELSE None]

RECURSIVE parse_postings(_, _, _)
parse_postings(lines, i, postings) ==
    IF i > Len(lines) THEN [ok |-> TRUE, postings |-> postings]
    ELSE LET kind == PostingLineKind(lines[i])
         IN  IF kind = "error" THEN [ok |-> FALSE, postings |-> postings]
             ELSE IF kind = "skip" THEN parse_postings(lines, i + 1, postings)
             ELSE parse_postings(lines, i + 1, Append(postings, PostingOf(lines[i])))

\* re.finditer over the content from line i: each header takes its block,
\* and the search goes on after the block
RECURSIVE parse_transactions(_, _, _)
parse_transactions(content, i, transactions) ==
    IF i > Len(content) THEN [ok |-> TRUE, transactions |-> transactions]
    ELSE IF IsHeader(content[i]) THEN
        LET end == BlockEnd(content, SkipBlanks(content, i + 1))
            r == parse_postings(SubSeq(content, i + 1, end - 1), 1, <<>>)
            txn == [date |-> content[i].toks[1].s[1],
                    description |-> content[i].toks[3].s[1],
                    postings |-> r.postings]
        IN  IF r.ok THEN parse_transactions(content, end, Append(transactions, txn))
            ELSE [ok |-> FALSE, transactions |-> transactions]
    ELSE parse_transactions(content, i + 1, transactions)

\* parse_file after the read: the four passes in order; a ValueError leaves
\* the parser with what the passes stored before it
parse_file(content, parser) ==
    LET commodities == parse_commodities(content, 1, parser.commodities)
        accounts == parse_accounts(content, 1, parser.accounts)
        p == parse_prices(content, 1, parser.prices)
        t == parse_transactions(content, 1, parser.transactions)
        parsed == [parser EXCEPT !.commodities = commodities, !.accounts = accounts,
                                 !.prices = p.prices]
    IN  IF ~p.ok THEN [ok |-> FALSE, parser |-> parsed]
        ELSE [ok |-> t.ok, parser |-> [parsed EXCEPT !.transactions = t.transactions]]

\* ------------------------------------------------------------------------
\* BeancountParser.get_account_mapping
\* ------------------------------------------------------------------------
\* An ERPNext account name is the sequence of its ' - '-separated parts:
\* 'ICICI Bank - PT' is <<"ICICI Bank", "PT">>.

\* pairs <<a, b>> of segments of the vocabulary with a a proper string
\* prefix of b
ProperSegPrefixes ==
    {<<"Opening", "Opening-Balances">>, <<"Cash", "CashInHand">>}

SegStartsWith(b, a) == a = b \/ <<a, b>> \in ProperSegPrefixes

\* beancount_account.startswith(bean_acc) on the ':'-joined strings
TextStartsWith(path, key) ==
    /\ Len(key) >= 1
    /\ Len(key) <= Len(path)
    /\ SubSeq(path, 1, Len(key) - 1) = SubSeq(key, 1, Len(key) - 1)
    /\ SegStartsWith(path[Len(key)], key[Len(key)])

\* the mappings dict in insertion order, each value without its suffix part
Mappings ==
    << [key |-> <<"Assets", "Cash", "ICICI">>, erp |-> <<"ICICI Bank">>],
       [key |-> <<"Assets", "Cash", "RazorpayX">>, erp |-> <<"RazorpayX">>],
       [key |-> <<"Assets", "AccountsReceivable">>, erp |-> <<"Accounts Receivable", "USD">>],
       [key |-> <<"Assets", "Upwork", "Escrow", "Mainland", "1851">>,
        erp |-> <<"Upwork Escrow", "Mainland">>],
       [key |-> <<"Assets", "Upwork", "Escrow", "Accel", "Ticketing">>,
        erp |-> <<"Upwork Escrow", "Accel">>],
       [key |-> <<"Assets", "Upwork", "Escrow", "P2P", "General">>,
        erp |-> <<"Upwork Escrow", "P2P">>],
       [key |-> <<"Liabilities", "CreditCard", "ICICI">>, erp |-> <<"ICICI Credit Card">>],
       [key |-> <<"Liabilities", "CreditCard", "SBI">>, erp |-> <<"SBI Credit Card">>],
       [key |-> <<"Income", "ClientServices">>, erp |-> <<"Client Services Revenue">>],
       [key |-> <<"Income", "ForexGain">>, erp |-> <<"Exchange Gain/Loss">>],
       [key |-> <<"Income", "MethodA", "Total">>, erp |-> <<"Revenue Method A">>],
       [key |-> <<"Income", "MethodB", "Total">>, erp |-> <<"Revenue Method B">>],
       [key |-> <<"Income", "MethodC", "Total">>, erp |-> <<"Revenue Method C">>],
       [key |-> <<"Expenses", "Platform", "Upwork", "ServiceFees">>,
        erp |-> <<"Upwork Platform Fees">>],
       [key |-> <<"Expenses", "Platform", "Upwork", "WHT">>,
        erp |-> <<"Upwork Withholding Tax">>],
       [key |-> <<"Expenses", "Salaries", "TeamCompensation">>, erp |-> <<"Salaries">>],
       [key |-> <<"Expenses", "Operations", "General">>, erp |-> <<"Operations Expenses">>],
       [key |-> <<"Expenses", "Technology", "General">>, erp |-> <<"Technology Expenses">>],
       [key |-> <<"Equity", "Opening-Balances">>, erp |-> <<"Equity Opening Balance">>] >>

\* no partial match is tried: a path without an exact entry gets the default
NoPartialMatch(beancount_account, i) == 0

\* the first entry from position i on whose key the account starts with
RECURSIVE FirstPartialMatch(_, _)
FirstPartialMatch(beancount_account, i) ==
    IF i > Len(Mappings) THEN 0
    ELSE IF TextStartsWith(beancount_account, Mappings[i].key) THEN i
    ELSE FirstPartialMatch(beancount_account, i + 1)

\* the table left out: every path gets the default derivation
default_account_mapping(beancount_account, company_suffix) ==
    Append(beancount_account, company_suffix)

get_account_mapping(beancount_account, company_suffix) ==
    IF \E i \in 1..Len(Mappings) : Mappings[i].key = beancount_account
    THEN LET i == CHOOSE i \in 1..Len(Mappings) : Mappings[i].key = beancount_account
         IN  Append(Mappings[i].erp, company_suffix)
    ELSE LET k == FirstPartialMatch(beancount_account, 1)
         IN  IF k # 0 THEN Append(Mappings[k].erp, company_suffix)
             ELSE Append(beancount_account, company_suffix)

\* ------------------------------------------------------------------------
\* validate_journal_entry (erpnext_client.py)
\* ------------------------------------------------------------------------
\* acc.get(key, 0) on a line kept as a record
Get(acc, key) == IF key \in DOMAIN acc THEN acc[key] ELSE 0

\* acc.get(first, 0) with no fallback to the second key
GetFirstOnly(acc, first, second) == Get(acc, first)

\* acc.get(first, 0) or acc.get(second, 0): the second key is read when the
\* first is absent or 0
GetOr(acc, first, second) ==
    IF Get(acc, first) # 0 THEN Get(acc, first) ELSE Get(acc, second)

RECURSIVE TotalDebit(_)
TotalDebit(accounts) ==
    IF accounts = <<>> THEN 0
    ELSE GetOr(Head(accounts), "debit_in_account_currency", "debit")
            + TotalDebit(Tail(accounts))

RECURSIVE TotalCredit(_)
TotalCredit(accounts) ==
    IF accounts = <<>> THEN 0
    ELSE GetOr(Head(accounts), "credit_in_account_currency", "credit")
            + TotalCredit(Tail(accounts))

\* the check with abs() left out: an excess of credit passes
validate_without_abs(accounts) ==
    ~(TotalDebit(accounts) - TotalCredit(accounts) > Tolerance)

\* TRUE: returns True; FALSE: raises ValueError
validate_journal_entry(accounts) ==
    ~(Abs(TotalDebit(accounts) - TotalCredit(accounts)) > Tolerance)

\* ------------------------------------------------------------------------
\* BeancountToERPNextMigrator._migrate_transactions: postings to lines
\* ------------------------------------------------------------------------
\* self.parser.accounts.get(bean_account, {}).get('type', '')
AccountTypeOf(accounts, bean_account) ==
    IF \E i \in 1..Len(accounts) : accounts[i].name = bean_account
    THEN LET i == CHOOSE i \in 1..Len(accounts) : accounts[i].name = bean_account
         IN  accounts[i].type
    ELSE ""

\* abs() left out: a negative amount is stored with its sign
DebitCreditSigned(account_type, amount) ==
    IF account_type \in {"Income", "Liability", "Equity"} THEN
        IF amount < 0 THEN [debit |-> amount, credit |-> 0]
        ELSE [debit |-> 0, credit |-> amount]
    ELSE
        IF amount >= 0 THEN [debit |-> amount, credit |-> 0]
        ELSE [debit |-> 0, credit |-> amount]

\* the debit/credit pair of an amount on an account of the given type
DebitCredit(account_type, amount) ==
    IF account_type \in {"Income", "Liability", "Equity"} THEN
        IF amount < 0 THEN [debit |-> Abs(amount), credit |-> 0]
        ELSE [debit |-> 0, credit |-> amount]
    ELSE
        IF amount >= 0 THEN [debit |-> amount, credit |-> 0]
        ELSE [debit |-> 0, credit |-> Abs(amount)]

\* currency = posting.get('currency', 'INR'): the key is always there, so a
\* posting without a currency token gives None, which differs from 'INR'
IsForex(posting) == posting.currency # Some(BaseCurrency)

\* the date of the transaction left out: any price of the currency is used
LineRateAnyDate(posting, date, prices) ==
    IF posting.exchange_rate # None /\ posting.exchange_rate[1] # 0
    THEN posting.exchange_rate
    ELSE IF \E i \in 1..Len(prices) : Some(prices[i].from) = posting.currency
    THEN LET i == CHOOSE i \in 1..Len(prices) : Some(prices[i].from) = posting.currency
         IN  Some(prices[i].rate)
    ELSE None

\* the exchange_rate key of a forex line: the posting's own rate when it is
\* truthy, else the price of (transaction date, currency), else no key
LineRate(posting, date, prices) ==
    IF posting.exchange_rate # None /\ posting.exchange_rate[1] # 0
    THEN posting.exchange_rate
    ELSE IF \E i \in 1..Len(prices) :
                prices[i].date = date /\ Some(prices[i].from) = posting.currency
    THEN LET i == CHOOSE i \in 1..Len(prices) :
                      prices[i].date = date /\ Some(prices[i].from) = posting.currency
         IN  Some(prices[i].rate)
    ELSE None

\* account_entry; a key the code does not set is None, a key set is Some(v)
AccountEntry(posting, date, parser) ==
    LET dc == DebitCredit(AccountTypeOf(parser.accounts, posting.account), posting.amount)
    IN  [account |-> get_account_mapping(posting.account, CompanySuffix),
         debit_in_account_currency |-> dc.debit,
         credit_in_account_currency |-> dc.credit,
         account_currency |-> IF IsForex(posting) THEN Some(posting.currency) ELSE None,
         exchange_rate |-> IF IsForex(posting)
                           THEN LineRate(posting, date, parser.prices) ELSE None]

EntryLines(txn, parser) ==
    [i \in 1..Len(txn.postings) |-> AccountEntry(txn.postings[i], txn.date, parser)]

HasForex(txn) == \E i \in 1..Len(txn.postings) : IsForex(txn.postings[i])

\* ------------------------------------------------------------------------
\* The ledgers the runs are given
\* ------------------------------------------------------------------------
Day == TDate("2025-07-31")

OpenIncome ==
    Line(FALSE, <<Day, TWord(<<"open">>), TWord(<<"Income", "ClientServices">>),
                  TWord(<<"USD">>)>>)

OpenCash ==
    Line(FALSE, <<Day, TWord(<<"open">>), TWord(<<"Assets", "Cash", "ICICI">>),
                  TWord(<<"INR">>)>>)

Header == Line(FALSE, <<Day, TSym("*"), TStr("t")>>)

PostCash ==
    Line(TRUE, <<TWord(<<"Assets", "Cash", "ICICI">>), TNum(100), TWord(<<"INR">>)>>)

PostIncome ==
    Line(TRUE, <<TWord(<<"Income", "ClientServices">>), TNum(-100), TWord(<<"INR">>)>>)

PostReceivableUSD ==
    Line(TRUE, <<TWord(<<"Assets", "AccountsReceivable">>), TNum(-100), TWord(<<"USD">>)>>)

\* an indented metadata line: two tokens, the second no number
MetaLine == Line(TRUE, <<TSym("document:"), TStr("x.pdf")>>)

LedgerLines ==
    {OpenIncome, OpenCash, Header, PostCash, PostIncome, PostReceivableUSD,
     MetaLine}

Ledgers == SeqsUpTo(LedgerLines, MaxLines)

\* Ledgers of one declaration, for the functions of the account path. A
\* path starts with one of the five roots or with a keyword, and goes on
\* with segments that hold a keyword of _classify_account, segments of the
\* keys of the mapping table, or a root
MaxSegments == 3

FirstSegments == {"Assets", "Liabilities", "Income", "Expenses", "Equity", "Cash"}

PathSegments ==
    {"Cash", "Bank", "AccountsReceivable", "AccountsPayable", "ICICI",
     "ClientServices", "Assets"}

Paths ==
    {<<first>> \o rest :
        first \in FirstSegments, rest \in SeqsUpTo(PathSegments, MaxSegments - 1)}

OpenLineFor(path) ==
    Line(FALSE, <<Day, TWord(<<"open">>), TWord(path), TWord(<<"INR">>)>>)

AccountLedgers == {<<OpenLineFor(path)>> : path \in Paths}

\* Ledgers of one transaction of two postings on one account, declared or
\* not, for the sign rule and the balance check: one path of every class,
\* and every amount up to MaxAmount hundredths
MaxAmount == 2

ClassPaths ==
    {<<"Assets", "Cash", "ICICI">>, <<"Assets", "AccountsReceivable">>,
     <<"Assets", "ICICI">>, <<"Liabilities", "AccountsPayable">>,
     <<"Liabilities", "ICICI">>, <<"Income", "ClientServices">>,
     <<"Expenses", "ICICI">>, <<"Equity", "ICICI">>, <<"Cash", "Bank">>}

\* <path> <amount> INR
PostOf(path, amount) == Line(TRUE, <<TWord(path), TNum(amount), TWord(<<"INR">>)>>)

AmountLedgers ==
    {(IF declared THEN <<OpenLineFor(path)>> ELSE <<>>)
            \o <<Header, PostOf(path, a1), PostOf(path, a2)>> :
        declared \in BOOLEAN, path \in ClassPaths,
        a1 \in -MaxAmount..MaxAmount, a2 \in -MaxAmount..MaxAmount}

\* The lists passed to validate_journal_entry by a caller: a line holds any
\* of the four amount keys, each with an amount up to MaxAmount hundredths;
\* a list is empty, one line, or a line followed by a line that holds the
\* two keys the migrator writes
AmountKeys ==
    {"debit_in_account_currency", "debit", "credit_in_account_currency", "credit"}

EntryLinesOver(keys) ==
    UNION {[held -> 0..MaxAmount] : held \in SUBSET keys}

ValidateInputs ==
    {<<>>}
        \cup {<<line>> : line \in EntryLinesOver(AmountKeys)}
        \cup {<<line, last>> :
                 line \in EntryLinesOver(AmountKeys),
                 last \in [{"debit_in_account_currency", "credit_in_account_currency"}
                               -> 0..MaxAmount]}

\* Ledgers of two declarations, for the mapping of several accounts: one
\* path of every class and two paths below a key of the mapping table
PairPaths ==
    ClassPaths \cup {<<"Income", "ClientServices", "ICICI">>,
                     <<"Assets", "Cash", "ICICI", "Bank">>}

PairLedgers == {<<OpenLineFor(p), OpenLineFor(q)>> : p \in PairPaths, q \in PairPaths}

\* Ledgers of price declarations followed by one transaction of two
\* postings, for the currency rules of _migrate_transactions
MaxPrices == 2

OtherDay == "2025-08-01"

\* <date> price <from> <rate> INR
PriceLineFor(date, from_curr, rate) ==
    Line(FALSE, <<TDate(date), TWord(<<"price">>), TWord(<<from_curr>>), TNum(rate),
                  TWord(<<"INR">>)>>)

PriceLines ==
    {PriceLineFor(date, from_curr, rate) :
        date \in {Day.s[1], OtherDay}, from_curr \in {"USD", "EUR"},
        rate \in {8300, 8420}}

\* Assets:Cash:ICICI 100.00, with no further token
PostNoCurrency == Line(TRUE, <<TWord(<<"Assets", "Cash", "ICICI">>), TNum(100)>>)

\* Assets:Cash:ICICI 100.00 <currency>
PostIn(currency) ==
    Line(TRUE, <<TWord(<<"Assets", "Cash", "ICICI">>), TNum(100), TWord(<<currency>>)>>)

\* Assets:Cash:ICICI 100.00 <currency> @ <rate> <target>
PostAt(currency, rate, target) ==
    Line(TRUE, <<TWord(<<"Assets", "Cash", "ICICI">>), TNum(100), TWord(<<currency>>),
                 TSym("@"), TNum(rate), TWord(<<target>>)>>)

DebitPostings ==
    {PostNoCurrency}
        \cup {PostIn(currency) : currency \in {"INR", "USD"}}
        \cup {PostAt("USD", rate, "INR") : rate \in {0, 7820}}
        \cup {PostAt("INR", rate, "USD") : rate \in {0, 7820}}

\* Income:ClientServices -50.00 INR: the transaction does not balance
PostIncomeHalf ==
    Line(TRUE, <<TWord(<<"Income", "ClientServices">>), TNum(-50), TWord(<<"INR">>)>>)

CreditPostings == {PostIncome, PostReceivableUSD, PostIncomeHalf}

ForexLedgers ==
    {prices \o <<Header, debit, credit>> :
        prices \in SeqsUpTo(PriceLines, MaxPrices), debit \in DebitPostings,
        credit \in CreditPostings}

\* ------------------------------------------------------------------------
\* State
\* ------------------------------------------------------------------------
VARIABLES
    content,        \* the text of the ledger file
    parser,         \* migrator.parser, kept across migrate_from_file calls
    pc,             \* position of the current migrate_from_file call
    error,          \* the exception a call ended with, "none" otherwise
    dry_run,        \* arguments of the current call
    auto_submit,
    acct_i,         \* position of the loop over parser.accounts
    txn_i,          \* position of the loop over parser.transactions
    created_count,  \* locals of _migrate_transactions, printed in the summary
    error_count,
    accounts_db,    \* backend: names of the accounts it holds
    entries_db,     \* backend: docstatus of each journal entry, by identifier
    calls,          \* requests the current call has sent to the backend
    runs,           \* migrate_from_file calls made so far
    faults,         \* failures the environment has produced so far
    accounts_arg,   \* the list a caller passes to validate_journal_entry
    validated       \* what that call did: "none" before it, "True", "ValueError"

vars == <<content, parser, pc, error, dry_run, auto_submit, acct_i, txn_i,
          created_count, error_count, accounts_db, entries_db, calls, runs, faults,
          accounts_arg, validated>>

\* the environment may fail once more
MayFail == faults < MaxFaults

\* one request of ERPNextClient as the backend saw it; held: the backend
\* held the named account when the request was sent
Call(op, account, parent, held, lines, multi_currency, entry, ok, why) ==
    [op |-> op, account |-> account, parent |-> parent, held |-> held,
     lines |-> lines, multi_currency |-> multi_currency, entry |-> entry,
     ok |-> ok, why |-> why]

GetAccountCall(name, ok, why) ==
    Call("get_account", name, <<>>, name \in accounts_db, <<>>, FALSE, 0, ok, why)

CreateAccountCall(name, parent, ok) ==
    Call("create_account", name, parent, name \in accounts_db, <<>>, FALSE, 0, ok, "")

CreateEntryCall(lines, multi_currency, entry, ok) ==
    Call("create_journal_entry", <<>>, <<>>, FALSE, lines, multi_currency, entry, ok, "")

GetEntryCall(entry, ok) ==
    Call("get_journal_entry", <<>>, <<>>, FALSE, <<>>, FALSE, entry, ok, "")

SubmitEntryCall(entry, ok) ==
    Call("submit_journal_entry", <<>>, <<>>, FALSE, <<>>, FALSE, entry, ok, "")

\* the ERPNext names of the accounts a ledger declares: the only accounts
\* get_account is ever asked about
DeclaredErpNames(ledger) ==
    {get_account_mapping(RegexPath(ledger[k].toks[3].s), CompanySuffix) :
        k \in {j \in 1..Len(ledger) : IsOpenLine(ledger[j])}}

\* before the first call the backend is fresh, or it already holds the
\* ledger's accounts (from an earlier migration)
Init ==
    /\ content \in Ledgers
    /\ parser = NewParser
    /\ pc = "Idle"
    /\ error = "none"
    /\ dry_run = TRUE
    /\ auto_submit = FALSE
    /\ acct_i = 1
    /\ txn_i = 1
    /\ created_count = 0
    /\ error_count = 0
    /\ accounts_db \in {{}, DeclaredErpNames(content)}
    /\ entries_db = <<>>
    /\ calls = <<>>
    /\ runs = 0
    /\ faults = 0
    /\ accounts_arg = <<>>
    /\ validated = "none"

\* ------------------------------------------------------------------------
\* migrate_from_file: the call and parse_file
\* ------------------------------------------------------------------------
\* migrate_from_file(filepath, dry_run = d, auto_submit = a) is called
CanStart == pc = "Idle"

Started(d, a) ==
    /\ dry_run' = d
    /\ auto_submit' = a
    /\ runs' = runs + 1
    /\ UNCHANGED <<accounts_arg, validated, content, acct_i, txn_i, created_count, error_count, accounts_db,
                   entries_db, calls>>

\* the exception of open() swallowed: the run goes on with an empty parser
AfterOpenErrorSwallowed == "Parsed"

\* nothing catches the exception of open(): it leaves migrate_from_file
AfterOpenError == "Error"

\* open(filepath) or f.read() raises: nothing is parsed
OpenFails(d, a) ==
    /\ CanStart
    /\ Started(d, a)
    /\ MayFail
    /\ faults' = faults + 1
    /\ pc' = AfterOpenError
    /\ error' = "OSError"
    /\ UNCHANGED parser

\* parse_file returns: the account loop is entered
ParseOk ==
    /\ CanStart
    /\ LET parsed == parse_file(content, parser)
       IN  /\ parsed.ok
           /\ parser' = parsed.parser
    /\ \E d \in BOOLEAN, a \in BOOLEAN : Started(d, a)
    /\ pc' = "Parsed"
    /\ error' = "none"
    /\ UNCHANGED faults

\* float() raises ValueError inside parse_file, and nothing catches it
ParseRaises ==
    /\ CanStart
    /\ LET parsed == parse_file(content, parser)
       IN  /\ ~parsed.ok
           /\ parser' = parsed.parser
    /\ \E d \in BOOLEAN, a \in BOOLEAN : Started(d, a)
    /\ pc' = "Error"
    /\ error' = "ValueError"
    /\ UNCHANGED faults

\* ------------------------------------------------------------------------
\* _migrate_accounts: one action per iteration of the loop
\* ------------------------------------------------------------------------
InAccounts == pc = "Parsed" /\ acct_i <= Len(parser.accounts)

Account == parser.accounts[acct_i]

ErpAccountName == get_account_mapping(Account.name, CompanySuffix)

\* parent_erp: the mapping of the path without its last segment, or
\* '<type> - <suffix>' for a one-segment path
ParentErp ==
    IF Len(Account.name) > 1
    THEN get_account_mapping(SubSeq(Account.name, 1, Len(Account.name) - 1), CompanySuffix)
    ELSE <<Account.type, CompanySuffix>>

\* 'if not dry_run:' of _migrate_accounts
AccountsLive == ~dry_run

\* the try/except left out: the exception leaves migrate_from_file
AfterAccountErrorRaise == "Error"

\* where the loop goes on after 'except Exception as e: print(...)'
AfterAccountError == "Parsed"

AccountLoopUnchanged ==
    UNCHANGED <<accounts_arg, validated, content, parser, error, dry_run, auto_submit, txn_i, created_count,
                error_count, entries_db, runs>>

\* dry run: the planned mapping is printed, nothing is sent
AccountDryRun ==
    /\ InAccounts
    /\ ~AccountsLive
    /\ acct_i' = acct_i + 1
    /\ UNCHANGED <<pc, accounts_db, calls, faults>>
    /\ AccountLoopUnchanged

\* get_account returns the account: 'Account already exists'
AccountExists ==
    /\ InAccounts
    /\ AccountsLive
    /\ ErpAccountName \in accounts_db
    /\ calls' = Append(calls, GetAccountCall(ErpAccountName, TRUE, ""))
    /\ acct_i' = acct_i + 1
    /\ UNCHANGED <<pc, accounts_db, faults>>
    /\ AccountLoopUnchanged

\* how get_account can raise: a 404 when the backend does not hold the
\* account, a transport error at any time; 'except: pass' swallows both
GetAccountFailures ==
    {"transport"} \cup (IF ErpAccountName \in accounts_db THEN {} ELSE {"not_found"})

\* a 404 for an account the backend does not hold is no failure of the
\* environment; a transport error is one
FaultsOf(why) == IF why = "transport" THEN 1 ELSE 0

\* get_account raises, existing stays None, create_account succeeds
AccountCreated(why) ==
    /\ InAccounts
    /\ AccountsLive
    /\ why \in GetAccountFailures
    /\ faults + FaultsOf(why) <= MaxFaults
    /\ faults' = faults + FaultsOf(why)
    /\ calls' = calls \o <<GetAccountCall(ErpAccountName, FALSE, why),
                           CreateAccountCall(ErpAccountName, ParentErp, TRUE)>>
    /\ accounts_db' = accounts_db \cup {ErpAccountName}
    /\ acct_i' = acct_i + 1
    /\ UNCHANGED pc
    /\ AccountLoopUnchanged

\* get_account raises, existing stays None, create_account raises
AccountCreateFails(why) ==
    /\ InAccounts
    /\ AccountsLive
    /\ why \in GetAccountFailures
    /\ faults + FaultsOf(why) + 1 <= MaxFaults
    /\ faults' = faults + FaultsOf(why) + 1
    /\ calls' = calls \o <<GetAccountCall(ErpAccountName, FALSE, why),
                           CreateAccountCall(ErpAccountName, ParentErp, FALSE)>>
    /\ pc' = AfterAccountError
    /\ acct_i' = acct_i + 1
    /\ UNCHANGED accounts_db
    /\ AccountLoopUnchanged

\* _migrate_transactions entered while declarations are still unprocessed
AccountsDoneEarly ==
    /\ pc = "Parsed"
    /\ pc' = "AccountsSynced"
    /\ txn_i' = 1
    /\ created_count' = 0
    /\ error_count' = 0
    /\ UNCHANGED <<accounts_arg, validated, content, parser, error, dry_run, auto_submit, acct_i, accounts_db,
                   entries_db, calls, runs, faults>>

\* the loop is over: _migrate_transactions starts with both counts at 0
AccountsDone ==
    /\ pc = "Parsed"
    /\ acct_i > Len(parser.accounts)
    /\ pc' = "AccountsSynced"
    /\ txn_i' = 1
    /\ created_count' = 0
    /\ error_count' = 0
    /\ UNCHANGED <<accounts_arg, validated, content, parser, error, dry_run, auto_submit, acct_i, accounts_db,
                   entries_db, calls, runs, faults>>

\* ------------------------------------------------------------------------
\* _migrate_transactions: one action per iteration of the loop
\* ------------------------------------------------------------------------
\* the loop left after its first iteration, whatever the list holds
InTransactionsFirstOnly ==
    pc = "AccountsSynced" /\ txn_i <= Len(parser.transactions) /\ txn_i = 1

InTransactions == pc = "AccountsSynced" /\ txn_i <= Len(parser.transactions)

Txn == parser.transactions[txn_i]

TxnLines == EntryLines(Txn, parser)

\* the guard left out: the requests are sent in a dry run too
TransactionsLiveAlways == TRUE

\* 'if not dry_run:' of _migrate_transactions
TransactionsLive == ~dry_run

\* 'error_count += 1' left out of 'except ValueError'
CountUnbalancedNot(count) == count

\* error_count after 'except ValueError', which ends in 'continue'
CountUnbalanced(count) == count + 1

\* the identifier the backend gives the next journal entry (result['name'])
NextEntry == Len(entries_db) + 1

TxnLoopUnchanged ==
    UNCHANGED <<accounts_arg, validated, content, parser, pc, error, dry_run, auto_submit, acct_i, accounts_db,
                runs>>

\* validate_journal_entry raises ValueError: counted, and on to the next
TxnUnbalanced ==
    /\ InTransactions
    /\ ~validate_journal_entry(TxnLines)
    /\ error_count' = CountUnbalanced(error_count)
    /\ txn_i' = txn_i + 1
    /\ UNCHANGED <<created_count, entries_db, calls, faults>>
    /\ TxnLoopUnchanged

\* balanced in a dry run: the lines are printed, nothing is sent
TxnDryRun ==
    /\ InTransactions
    /\ ~TransactionsLive
    /\ validate_journal_entry(TxnLines)
    /\ txn_i' = txn_i + 1
    /\ UNCHANGED <<created_count, error_count, entries_db, calls, faults>>
    /\ TxnLoopUnchanged

\* create_journal_entry raises
TxnCreateFails ==
    /\ InTransactions
    /\ TransactionsLive
    /\ MayFail
    /\ validate_journal_entry(TxnLines)
    /\ faults' = faults + 1
    /\ calls' = Append(calls, CreateEntryCall(TxnLines, HasForex(Txn), 0, FALSE))
    /\ error_count' = error_count + 1
    /\ txn_i' = txn_i + 1
    /\ UNCHANGED <<created_count, entries_db>>
    /\ TxnLoopUnchanged

\* auto_submit ignored: the entry is created and never submitted
TxnCreatedAnyMode ==
    /\ InTransactions
    /\ TransactionsLive
    /\ validate_journal_entry(TxnLines)
    /\ calls' = Append(calls, CreateEntryCall(TxnLines, HasForex(Txn), NextEntry, TRUE))
    /\ entries_db' = Append(entries_db, 0)
    /\ created_count' = created_count + 1
    /\ txn_i' = txn_i + 1
    /\ UNCHANGED <<error_count, faults>>
    /\ TxnLoopUnchanged

\* create_journal_entry returns and auto_submit is not set
TxnCreated ==
    /\ InTransactions
    /\ TransactionsLive
    /\ ~auto_submit
    /\ validate_journal_entry(TxnLines)
    /\ calls' = Append(calls, CreateEntryCall(TxnLines, HasForex(Txn), NextEntry, TRUE))
    /\ entries_db' = Append(entries_db, 0)
    /\ created_count' = created_count + 1
    /\ txn_i' = txn_i + 1
    /\ UNCHANGED <<error_count, faults>>
    /\ TxnLoopUnchanged

\* create_journal_entry returns; submit_journal_entry reads the entry and
\* puts docstatus 1, and both requests succeed
TxnSubmitted ==
    /\ InTransactions
    /\ TransactionsLive
    /\ auto_submit
    /\ validate_journal_entry(TxnLines)
    /\ calls' = calls \o <<CreateEntryCall(TxnLines, HasForex(Txn), NextEntry, TRUE),
                           GetEntryCall(NextEntry, TRUE),
                           SubmitEntryCall(NextEntry, TRUE)>>
    /\ entries_db' = Append(entries_db, 1)
    /\ created_count' = created_count + 1
    /\ txn_i' = txn_i + 1
    /\ UNCHANGED <<error_count, faults>>
    /\ TxnLoopUnchanged

\* the transaction tried again after a failed submit
TxnSubmitFailsRetry(stage) ==
    /\ InTransactions
    /\ TransactionsLive
    /\ auto_submit
    /\ MayFail
    /\ validate_journal_entry(TxnLines)
    /\ faults' = faults + 1
    /\ calls' = calls \o
         (IF stage = "get"
          THEN <<CreateEntryCall(TxnLines, HasForex(Txn), NextEntry, TRUE),
                 GetEntryCall(NextEntry, FALSE)>>
          ELSE <<CreateEntryCall(TxnLines, HasForex(Txn), NextEntry, TRUE),
                 GetEntryCall(NextEntry, TRUE),
                 SubmitEntryCall(NextEntry, FALSE)>>)
    /\ entries_db' = Append(entries_db, 0)
    /\ error_count' = error_count + 1
    /\ txn_i' = txn_i
    /\ UNCHANGED created_count
    /\ TxnLoopUnchanged

\* create_journal_entry returns; submit_journal_entry raises, in its read
\* (stage "get") or in its put (stage "put"): the except clause counts an
\* error, and created_count += 1 is not reached
TxnSubmitFails(stage) ==
    /\ InTransactions
    /\ TransactionsLive
    /\ auto_submit
    /\ MayFail
    /\ validate_journal_entry(TxnLines)
    /\ faults' = faults + 1
    /\ calls' = calls \o
         (IF stage = "get"
          THEN <<CreateEntryCall(TxnLines, HasForex(Txn), NextEntry, TRUE),
                 GetEntryCall(NextEntry, FALSE)>>
          ELSE <<CreateEntryCall(TxnLines, HasForex(Txn), NextEntry, TRUE),
                 GetEntryCall(NextEntry, TRUE),
                 SubmitEntryCall(NextEntry, FALSE)>>)
    /\ entries_db' = Append(entries_db, 0)
    /\ error_count' = error_count + 1
    /\ txn_i' = txn_i + 1
    /\ UNCHANGED created_count
    /\ TxnLoopUnchanged

\* the loop is over: the summary is printed and migrate_from_file returns
Summary ==
    /\ pc = "AccountsSynced"
    /\ txn_i > Len(parser.transactions)
    /\ pc' = "Done"
    /\ UNCHANGED <<accounts_arg, validated, content, parser, error, dry_run, auto_submit, acct_i, txn_i,
                   created_count, error_count, accounts_db, entries_db, calls, runs,
                   faults>>

\* migrate_from_file has returned or raised, and the caller is about to
\* call it again on the same migrator: the locals of the last call are gone
CallAgain ==
    /\ pc \in {"Done", "Error"}
    /\ runs < MaxRuns
    /\ pc' = "Idle"
    /\ error' = "none"
    /\ dry_run' = TRUE
    /\ auto_submit' = FALSE
    /\ acct_i' = 1
    /\ txn_i' = 1
    /\ created_count' = 0
    /\ error_count' = 0
    /\ calls' = <<>>
    /\ UNCHANGED <<accounts_arg, validated, content, parser, accounts_db, entries_db, runs, faults>>

Next ==
    \/ \E d \in BOOLEAN, a \in BOOLEAN : OpenFails(d, a)
    \/ ParseOk
    \/ ParseRaises
    \/ AccountDryRun
    \/ AccountExists
    \/ \E why \in {"not_found", "transport"} : AccountCreated(why)
    \/ \E why \in {"not_found", "transport"} : AccountCreateFails(why)
    \/ AccountsDone
    \/ TxnUnbalanced
    \/ TxnDryRun
    \/ TxnCreateFails
    \/ TxnCreated
    \/ TxnSubmitted
    \/ \E stage \in {"get", "put"} : TxnSubmitFails(stage)
    \/ Summary

\* one migrate_from_file call on a new migrator, as in the usage example
Spec == Init /\ [][Next]_vars

\* up to MaxRuns calls on the same migrator against the same backend
NextRerun == Next \/ CallAgain

SpecRerun == Init /\ [][NextRerun]_vars

\* InitWith: a new migrator given one of the ledgers, over a backend that is
\* fresh or already holds the ledger's accounts
InitWith(ledgers) ==
    /\ content \in ledgers
    /\ parser = NewParser
    /\ pc = "Idle"
    /\ error = "none"
    /\ dry_run = TRUE
    /\ auto_submit = FALSE
    /\ acct_i = 1
    /\ txn_i = 1
    /\ created_count = 0
    /\ error_count = 0
    /\ accounts_db \in {{}, DeclaredErpNames(content)}
    /\ entries_db = <<>>
    /\ calls = <<>>
    /\ runs = 0
    /\ faults = 0
    /\ accounts_arg = <<>>
    /\ validated = "none"

\* the ledgers of the runs that are followed to their end: a declaration, a
\* header, a debit and a credit that balances it; and one ledger with a line
\* float() rejects
LiveLedgers ==
    SeqsUpTo({OpenCash, Header, PostCash, PostIncome}, MaxLines) \cup {<<Header, MetaLine>>}

\* one call that keeps running: the interpreter executes the next statement,
\* and every request to the backend returns or raises
SpecLive == InitWith(LiveLedgers) /\ [][Next]_vars /\ WF_vars(Next)

\* the call up to the end of _migrate_accounts, on a file that is read and
\* parsed: _classify_account and get_account_mapping applied to one path
NextAccounts ==
    \/ ParseOk
    \/ AccountDryRun
    \/ AccountExists
    \/ \E why \in {"not_found", "transport"} : AccountCreated(why)
    \/ \E why \in {"not_found", "transport"} : AccountCreateFails(why)
    \/ AccountsDone

SpecAccounts == InitWith(AccountLedgers) /\ [][NextAccounts]_vars

\* the same steps on a file of two declarations
SpecPairs == InitWith(PairLedgers) /\ [][NextAccounts]_vars

\* the call on a file that is read and parsed: the two loops and the summary
NextParsed ==
    \/ ParseOk
    \/ AccountDryRun
    \/ AccountExists
    \/ \E why \in {"not_found", "transport"} : AccountCreated(why)
    \/ \E why \in {"not_found", "transport"} : AccountCreateFails(why)
    \/ AccountsDone
    \/ TxnUnbalanced
    \/ TxnDryRun
    \/ TxnCreateFails
    \/ TxnCreated
    \/ TxnSubmitted
    \/ \E stage \in {"get", "put"} : TxnSubmitFails(stage)
    \/ Summary

SpecAmounts == InitWith(AmountLedgers) /\ [][NextParsed]_vars

\* validate_journal_entry(accounts_arg) called by a user of the client
\* module: it returns True or raises, reads the lines and sends nothing
ValidateCall ==
    /\ validated = "none"
    /\ validated' = IF validate_journal_entry(accounts_arg) THEN "True" ELSE "ValueError"
    /\ UNCHANGED <<accounts_arg, content, parser, pc, error, dry_run, auto_submit,
                   acct_i, txn_i, created_count, error_count, accounts_db, entries_db,
                   calls, runs, faults>>

\* a client with no migration under way, and a list to validate
InitValidate ==
    /\ content = <<>>
    /\ parser = NewParser
    /\ pc = "Idle"
    /\ error = "none"
    /\ dry_run = TRUE
    /\ auto_submit = FALSE
    /\ acct_i = 1
    /\ txn_i = 1
    /\ created_count = 0
    /\ error_count = 0
    /\ accounts_db = {}
    /\ entries_db = <<>>
    /\ calls = <<>>
    /\ runs = 0
    /\ faults = 0
    /\ accounts_arg \in ValidateInputs
    /\ validated = "none"

SpecValidate == InitValidate /\ [][ValidateCall]_vars

\* the call from parse_file to the summary on a file that is read and
\* parsed and declares no account: _migrate_transactions applied to one
\* transaction
NextForex ==
    \/ ParseOk
    \/ AccountsDone
    \/ TxnUnbalanced
    \/ TxnDryRun
    \/ TxnCreateFails
    \/ TxnCreated
    \/ TxnSubmitted
    \/ \E stage \in {"get", "put"} : TxnSubmitFails(stage)
    \/ Summary

SpecForex == InitWith(ForexLedgers) /\ [][NextForex]_vars

\* ------------------------------------------------------------------------
\* Definitions the claims are stated with
\* ------------------------------------------------------------------------
CallsOf(op) == {i \in 1..Len(calls) : calls[i].op = op}

\* the currency of a journal line: its account_currency, the base currency
\* when the line has none
LineCurrency(line) ==
    IF line.account_currency = None THEN Some(BaseCurrency) ELSE line.account_currency[1]

RECURSIVE DebitIn(_, _)
DebitIn(lines, cur) ==
    IF lines = <<>> THEN 0
    ELSE (IF LineCurrency(Head(lines)) = cur
          THEN Head(lines).debit_in_account_currency ELSE 0) + DebitIn(Tail(lines), cur)

RECURSIVE CreditIn(_, _)
CreditIn(lines, cur) ==
    IF lines = <<>> THEN 0
    ELSE (IF LineCurrency(Head(lines)) = cur
          THEN Head(lines).credit_in_account_currency ELSE 0) + CreditIn(Tail(lines), cur)

BalancedPerCurrency(lines) ==
    \A i \in 1..Len(lines) :
        Abs(DebitIn(lines, LineCurrency(lines[i])) - CreditIn(lines, LineCurrency(lines[i])))
            <= Tolerance

\* debits and credits of all lines together differ by at most 0.01
BalancedInTotal(lines) == Abs(TotalDebit(lines) - TotalCredit(lines)) <= Tolerance

RECURSIVE AmountIn(_, _)
AmountIn(postings, cur) ==
    IF postings = <<>> THEN 0
    ELSE (IF Head(postings).currency = cur THEN Head(postings).amount ELSE 0)
         + AmountIn(Tail(postings), cur)

\* the signed amounts of the postings sum to zero in each currency
ZeroSumPerCurrency(postings) ==
    \A i \in 1..Len(postings) : AmountIn(postings, postings[i].currency) = 0

\* C1: in a dry run no request of any kind reaches the backend, whatever the
\* ledger and whatever auto_submit
C1_DryRunSendsNothing ==
    (pc # "Idle" /\ dry_run) => (calls = <<>> /\ entries_db = <<>>)

\* a dry run with auto_submit set that went through an account and a
\* balanced transaction
C1_Witness ==
    /\ pc = "Done" /\ dry_run /\ auto_submit
    /\ Len(parser.accounts) >= 1
    /\ \E i \in 1..Len(parser.transactions) :
           /\ Len(parser.transactions[i].postings) = 2
           /\ validate_journal_entry(EntryLines(parser.transactions[i], parser))

\* C2: every create-journal-entry request carries lines whose debits and
\* credits are equal within 0.01 in each currency present among them
C2_CreatedEntriesBalancePerCurrency ==
    \A i \in CallsOf("create_journal_entry") : BalancedPerCurrency(calls[i].lines)

\* C3: a transaction whose signed amounts sum to zero in each currency gives
\* lines whose debits equal their credits within 0.01, and passes the check
C3_ZeroSumTransactionsBalance ==
    (InTransactions /\ ZeroSumPerCurrency(Txn.postings))
        => (BalancedInTotal(TxnLines) /\ validate_journal_entry(TxnLines))

\* C4: on an account of class Income, Liability or Equity a negative amount
\* becomes a credit of its absolute value, a non-negative one a debit
C4_ReversedClassesSignRule ==
    InTransactions =>
        \A i \in 1..Len(Txn.postings) :
            AccountTypeOf(parser.accounts, Txn.postings[i].account)
                    \in {"Income", "Liability", "Equity"}
                => IF Txn.postings[i].amount < 0
                   THEN /\ TxnLines[i].credit_in_account_currency = Abs(Txn.postings[i].amount)
                        /\ TxnLines[i].debit_in_account_currency = 0
                   ELSE /\ TxnLines[i].debit_in_account_currency = Txn.postings[i].amount
                        /\ TxnLines[i].credit_in_account_currency = 0

\* C5: no create-account request names an account the backend already holds
C5_NoCreateForHeldAccount ==
    \A i \in CallsOf("create_account") : ~calls[i].held

\* C6: a transaction that fails the balance check adds exactly one to
\* error_count, leaves created_count alone, causes no request and no change
\* of the backend, and the loop goes on with the next transaction, in a dry
\* run and in a live run
C6_UnbalancedIsCountedAndSkipped ==
    [][(InTransactions /\ ~BalancedInTotal(TxnLines))
         => /\ error_count' = error_count + 1
            /\ created_count' = created_count
            /\ calls' = calls
            /\ entries_db' = entries_db
            /\ txn_i' = txn_i + 1
            /\ pc' = pc]_vars

\* a live run whose first transaction failed the check and whose second
\* transaction was created afterwards
C6_Witness ==
    /\ pc = "Done" /\ ~dry_run
    /\ Len(parser.transactions) = 2
    /\ ~BalancedInTotal(EntryLines(parser.transactions[1], parser))
    /\ error_count = 1
    /\ created_count = 1
    /\ Len(calls) = 1

\* C7: a second parse of the same text on the same parser leaves accounts,
\* commodities, prices and transactions as the first parse produced them
C7_ReparseChangesNothing ==
    pc \in {"Parsed", "AccountsSynced", "Done"}
        => parser = parse_file(content, NewParser).parser

\* C8: no line of the ledger makes the parse or the run end in an exception
C8_NoLineAbortsTheRun == error # "ValueError"

\* transactions of the run that failed the balance check
UnbalancedSeen ==
    {i \in 1..Len(parser.transactions) :
        i < txn_i /\ ~BalancedInTotal(EntryLines(parser.transactions[i], parser))}

\* create-account, create-journal-entry and submit requests that failed
FailedRequests ==
    {i \in 1..Len(calls) :
        /\ ~calls[i].ok
        /\ calls[i].op \in {"create_account", "create_journal_entry",
                            "get_journal_entry", "submit_journal_entry"}}

\* C9: the error_count of the summary counts every unbalanced transaction
\* and every failed create-account, create-journal-entry and submit request
C9_SummaryCountsEveryFailure ==
    pc = "Done" => error_count = Cardinality(UnbalancedSeen) + Cardinality(FailedRequests)

\* C10: in a live run no outcome of the existence check or of the
\* create-account request ends the account loop: each iteration goes on to
\* the next account, the call never ends in an exception after a request
\* was sent, and the transaction phase starts only with all accounts done
C10_AccountFailureNeverAborts ==
    /\ [][InAccounts => (pc' = "Parsed" /\ acct_i' = acct_i + 1)]_vars
    /\ [](pc = "Error" => calls = <<>>)
    /\ [](pc \in {"AccountsSynced", "Done"} => acct_i = Len(parser.accounts) + 1)

\* a finished live run in which the create request of the first account
\* failed and the second account was created afterwards
C10_Witness ==
    /\ pc = "Done" /\ ~dry_run
    /\ Len(calls) >= 4
    /\ calls[1].op = "get_account" /\ ~calls[1].ok
    /\ calls[2].op = "create_account" /\ ~calls[2].ok
    /\ calls[4].op = "create_account" /\ calls[4].ok
    /\ calls[4].account # calls[2].account

\* C11: a run whose ledger was parsed reaches the summary, whatever requests
\* fail on the way; each iteration of the transaction loop goes on to the
\* next transaction, and at the summary every transaction has been attempted
C11_ParsedRunReachesSummary ==
    /\ (pc = "Parsed") ~> (pc = "Done")
    /\ [][InTransactions => (txn_i' = txn_i + 1 /\ pc' = pc)]_vars
    /\ [](pc = "Done" => txn_i = Len(parser.transactions) + 1)

\* a finished live run whose first create-journal-entry request failed and
\* whose second transaction was created afterwards
C11_Witness ==
    /\ pc = "Done" /\ ~dry_run
    /\ Len(parser.transactions) >= 2
    /\ Len(calls) >= 2
    /\ calls[1].op = "create_journal_entry" /\ ~calls[1].ok
    /\ calls[2].op = "create_journal_entry" /\ calls[2].ok

\* C12: when the ledger file cannot be opened or read the call ends in the
\* exception at once, in a dry run and in a live run: no request has been
\* sent, the backend is as it was, and no step follows
C12_UnreadableFileAbortsBeforeAnyCall ==
    /\ [](error = "OSError" => (pc = "Error" /\ calls = <<>>))
    /\ [][error' = "OSError"
            => (accounts_db' = accounts_db /\ entries_db' = entries_db)]_vars
    /\ [][pc # "Error"]_vars

\* a live call with auto_submit set whose file could not be read
C12_Witness == error = "OSError" /\ ~dry_run /\ auto_submit /\ runs = 1

\* the phase changes of one migrate_from_file call: parse, then the account
\* loop, then the transaction loop, then the summary; the exception of
\* parse_file ends the call from Idle
PhaseSteps ==
    {<<"Idle", "Parsed">>, <<"Idle", "Error">>, <<"Parsed", "Parsed">>,
     <<"Parsed", "AccountsSynced">>, <<"AccountsSynced", "AccountsSynced">>,
     <<"AccountsSynced", "Done">>}

AccountOps == {"get_account", "create_account"}

EntryOps == {"create_journal_entry", "get_journal_entry", "submit_journal_entry"}

\* the requests a step adds to the log
NewCalls == {i \in 1..Len(calls') : i > Len(calls)}

\* C13: within one call the phases follow each other in the one forward
\* order; journal-entry requests are sent only after the last declared
\* account has been processed, and no account request follows one of them
C13_PhasesInOrder ==
    /\ [][(<<pc, pc'>> \in PhaseSteps)]_vars
    /\ [][\A i \in NewCalls :
            IF calls'[i].op \in AccountOps
            THEN pc = "Parsed" /\ txn_i = 1
            ELSE /\ calls'[i].op \in EntryOps
                 /\ pc = "AccountsSynced"
                 /\ acct_i = Len(parser.accounts) + 1]_vars
    /\ [](\A i \in 1..Len(calls) : \A j \in 1..Len(calls) :
            (i < j /\ calls[i].op \in EntryOps) => calls[j].op \in EntryOps)

\* a finished live run that sent account requests and then entry requests
C13_Witness ==
    /\ pc = "Done" /\ ~dry_run
    /\ Len(calls) >= 2
    /\ calls[1].op \in AccountOps
    /\ calls[Len(calls)].op \in EntryOps

\* C14: submit_journal_entry is called exactly for the entries whose create
\* request succeeded in a call with auto_submit set.  The operation starts
\* at once with its read of the created entry and, when the read succeeds,
\* puts docstatus 1 on the same entry, before anything else is requested;
\* without auto_submit or after a failed create nothing of it is sent
C14_SubmitFollowsItsCreate ==
    \A i \in 1..Len(calls) :
        /\ (calls[i].op = "create_journal_entry" /\ calls[i].ok /\ auto_submit)
              => /\ i + 1 <= Len(calls)
                 /\ calls[i + 1].op = "get_journal_entry"
                 /\ calls[i + 1].entry = calls[i].entry
        /\ calls[i].op = "get_journal_entry"
              => /\ auto_submit
                 /\ i > 1
                 /\ calls[i - 1].op = "create_journal_entry"
                 /\ calls[i - 1].ok
                 /\ calls[i - 1].entry = calls[i].entry
                 /\ calls[i].ok => /\ i + 1 <= Len(calls)
                                   /\ calls[i + 1].op = "submit_journal_entry"
        /\ calls[i].op = "submit_journal_entry"
              => /\ i > 1
                 /\ calls[i - 1].op = "get_journal_entry"
                 /\ calls[i - 1].ok
                 /\ calls[i - 1].entry = calls[i].entry

\* a finished live run with auto_submit set that created and submitted two
\* entries, one after the other
C14_Witness ==
    /\ pc = "Done" /\ ~dry_run /\ auto_submit
    /\ Len(calls) = 6
    /\ calls[3].op = "submit_journal_entry" /\ calls[3].ok /\ calls[3].entry = 1
    /\ calls[4].op = "create_journal_entry"
    /\ calls[6].op = "submit_journal_entry" /\ calls[6].ok /\ calls[6].entry = 2

\* the requests of the account loop that name an account
AccountCalls == {i \in 1..Len(calls) : calls[i].op \in AccountOps}

\* the entries of the mapping table whose key is the path itself
ExactKeys(path) == {m \in 1..Len(Mappings) : Mappings[m].key = path}

\* the entries of the mapping table whose key the path begins with
PrefixKeys(path) == {m \in 1..Len(Mappings) : TextStartsWith(path, Mappings[m].key)}

\* among the keys the path begins with, those no other such key extends
LongestPrefixKeys(path) ==
    {m \in PrefixKeys(path) :
        \A n \in PrefixKeys(path) : TextStartsWith(Mappings[m].key, Mappings[n].key)}

\* C15: a declared path that is a key of the mapping table maps to that
\* key's target with the suffix, in every state and in every request that
\* names the account
C15_ExactKeyMapsVerbatim ==
    \A k \in 1..Len(parser.accounts) : \A m \in ExactKeys(parser.accounts[k].name) :
        /\ get_account_mapping(parser.accounts[k].name, CompanySuffix)
              = Append(Mappings[m].erp, CompanySuffix)
        /\ \A i \in AccountCalls : calls[i].account = Append(Mappings[m].erp, CompanySuffix)

\* a create-account request for the declared path Assets:Cash:ICICI that
\* names 'ICICI Bank - PT'
C15_Witness ==
    /\ Len(parser.accounts) = 1
    /\ parser.accounts[1].name = <<"Assets", "Cash", "ICICI">>
    /\ \E i \in AccountCalls :
          calls[i].op = "create_account" /\ calls[i].account = <<"ICICI Bank", "PT">>

\* C16: a declared path that is no key of the mapping table maps to the
\* target of the longest key it begins with, and to the default derivation
\* (its segments joined by ' - ', then the suffix) only when it begins with
\* no key
C16_LongestPrefixThenDefault ==
    \A k \in 1..Len(parser.accounts) :
        LET path == parser.accounts[k].name
            erp == get_account_mapping(path, CompanySuffix)
        IN  ExactKeys(path) = {} =>
                /\ IF PrefixKeys(path) # {}
                   THEN \E m \in LongestPrefixKeys(path) :
                            erp = Append(Mappings[m].erp, CompanySuffix)
                   ELSE erp = path \o <<CompanySuffix>>
                /\ \A i \in AccountCalls : calls[i].account = erp

\* a create-account request for a path below the key Income:ClientServices,
\* named by the target of that key
C16_Witness ==
    /\ Len(parser.accounts) = 1
    /\ Len(parser.accounts[1].name) = 3
    /\ SubSeq(parser.accounts[1].name, 1, 2) = <<"Income", "ClientServices">>
    /\ \E i \in AccountCalls :
          /\ calls[i].op = "create_account"
          /\ calls[i].account = <<"Client Services Revenue", "PT">>

\* the path is <root>:<something>
Under(path, root) == Len(path) >= 2 /\ Head(path) = root

\* some segment of the path holds the keyword
Holds(path, kw) == \E i \in 1..Len(path) : kw \in SegKeywords(path[i])

\* the classes a path may get under the stated precedence
StatedClasses(path) ==
    {c \in {"Bank", "Receivable", "Asset", "Payable", "Liability", "Income",
            "Expense", "Equity", "Unknown"} :
        \/ c = "Bank" /\ Under(path, "Assets")
              /\ (Holds(path, "Cash") \/ Holds(path, "Bank"))
        \/ c = "Receivable" /\ Under(path, "Assets") /\ Holds(path, "Receivable")
              /\ ~Holds(path, "Cash") /\ ~Holds(path, "Bank")
        \/ c = "Asset" /\ Under(path, "Assets") /\ ~Holds(path, "Receivable")
              /\ ~Holds(path, "Cash") /\ ~Holds(path, "Bank")
        \/ c = "Payable" /\ Under(path, "Liabilities") /\ Holds(path, "Payable")
        \/ c = "Liability" /\ Under(path, "Liabilities") /\ ~Holds(path, "Payable")
        \/ c = "Income" /\ Under(path, "Income")
        \/ c = "Expense" /\ Under(path, "Expenses")
        \/ c = "Equity" /\ Under(path, "Equity")
        \/ c = "Unknown" /\ \A root \in {"Assets", "Liabilities", "Income",
                                         "Expenses", "Equity"} : ~Under(path, root)}

\* C20: every declared account has exactly the class the stated precedence
\* gives its path, and the class of the account is the class of its path
\* wherever the path is declared
C20_ClassFollowsStatedPrecedence ==
    \A k \in 1..Len(parser.accounts) :
        /\ StatedClasses(parser.accounts[k].name) = {parser.accounts[k].type}
        /\ parser.accounts[k].type = classify_account(parser.accounts[k].name)

\* the parsed declaration of an Assets path that holds Bank and Receivable
\* (a Bank)
C20_Witness ==
    /\ pc = "AccountsSynced"
    /\ Len(parser.accounts) = 1
    /\ parser.accounts[1].name = <<"Assets", "AccountsReceivable", "Bank">>
    /\ parser.accounts[1].type = "Bank"

\* the posting names a currency, and it is not the base currency
NonBase(posting) == posting.currency # None /\ posting.currency # Some(BaseCurrency)

\* the create-journal-entry requests sent by the step
NewCreates == {i \in NewCalls : calls'[i].op = "create_journal_entry"}

\* C17: a create-journal-entry request is flagged multi-currency exactly
\* when a posting of its transaction names a currency other than INR, and
\* the line of a posting that names no currency has no account_currency
C17_NoCurrencyCountsAsBase ==
    [][\A i \in NewCreates :
          /\ calls'[i].multi_currency
                <=> \E k \in 1..Len(Txn.postings) : NonBase(Txn.postings[k])
          /\ \A k \in 1..Len(Txn.postings) :
                Txn.postings[k].currency = None
                    => calls'[i].lines[k].account_currency = None]_vars

\* the price lines of the file for a date and a currency
PricesDeclared(date, currency) ==
    {j \in 1..Len(content) :
        /\ IsPriceLine(content[j])
        /\ content[j].toks[4].t = "num"
        /\ content[j].toks[1].s[1] = date
        /\ Some(content[j].toks[3].s) = currency}

\* the rate declared for a date and a currency (the last declaration counts)
DeclaredRate(date, currency) ==
    IF PricesDeclared(date, currency) = {} THEN None
    ELSE LET j == CHOOSE j \in PricesDeclared(date, currency) :
                      \A l \in PricesDeclared(date, currency) : l <= j
         IN  Some(content[j].toks[4].n)

\* C18: the line of a posting with no rate of its own and a currency other
\* than INR carries the rate declared for the date of the transaction and the
\* currency of the posting, and no rate when the file declares none for them
C18_RateFromPriceOfDateAndCurrency ==
    [][\A i \in NewCreates : \A k \in 1..Len(Txn.postings) :
          (Txn.postings[k].exchange_rate = None /\ NonBase(Txn.postings[k]))
              => calls'[i].lines[k].exchange_rate
                     = DeclaredRate(Txn.date, Txn.postings[k].currency)]_vars

\* a request sent for a USD posting with no rate, in a file that declares
\* 83.00 for USD on another day, 83.00 for EUR on the day of the
\* transaction and 84.20 for USD on that day: the line carries 84.20
C18_Witness ==
    /\ Len(content) = 5
    /\ content[1] = PriceLineFor(OtherDay, "USD", 8300)
    /\ content[2] = PriceLineFor(Day.s[1], "USD", 8420)
    /\ content[4] = PostIn("USD")
    /\ Len(calls) >= 1
    /\ calls[1].op = "create_journal_entry"
    /\ calls[1].lines[1].exchange_rate = Some(8420)

\* C19: the line of a posting that carries a rate of its own carries
\* exactly that rate
C19_ExplicitRateIsCarried ==
    [][\A i \in NewCreates : \A k \in 1..Len(Txn.postings) :
          Txn.postings[k].exchange_rate # None
              => calls'[i].lines[k].exchange_rate = Txn.postings[k].exchange_rate]_vars

\* the (date, currency) pairs of the price lines of the file
PriceKeys ==
    {<<content[j].toks[1].s[1], content[j].toks[3].s>> :
        j \in {l \in 1..Len(content) : IsPriceLine(content[l])}}

\* the entries of the parsed price table for a date and a currency
StoredFor(date, currency) ==
    {k \in 1..Len(parser.prices) :
        parser.prices[k].date = date /\ parser.prices[k].from = currency}

\* C21: once the file is parsed, the price table holds one entry for every
\* (date, currency) of a price line and nothing else, and the rate of the
\* entry is the rate of the last price line of the file for that pair
C21_LastPriceOfKeyWins ==
    pc \in {"Parsed", "AccountsSynced", "Done"} =>
        /\ \A key \in PriceKeys :
              /\ Cardinality(StoredFor(key[1], key[2])) = 1
              /\ \A k \in StoredFor(key[1], key[2]) :
                    Some(parser.prices[k].rate) = DeclaredRate(key[1], Some(key[2]))
        /\ \A k \in 1..Len(parser.prices) :
              <<parser.prices[k].date, parser.prices[k].from>> \in PriceKeys

\* a parsed file that declares 83.00 and then 84.20 for USD on one day: the
\* table holds 84.20
C21_Witness ==
    /\ pc = "Parsed"
    /\ Len(content) = 5
    /\ content[1] = PriceLineFor(Day.s[1], "USD", 8300)
    /\ content[2] = PriceLineFor(Day.s[1], "USD", 8420)
    /\ Len(parser.prices) = 1
    /\ parser.prices[1].rate = 8420

\* C22: an existence query that fails with a transport error is followed by
\* no create-account request for that account; only a not-found answer is
C22_TransportErrorAbortsTheAccount ==
    \A i \in CallsOf("create_account") :
        /\ i > 1
        /\ calls[i - 1].op = "get_account"
        /\ calls[i - 1].account = calls[i].account
        /\ ~calls[i - 1].ok
        /\ calls[i - 1].why = "not_found"

\* the class of the account of a posting of the current transaction
ClassOf(posting) == AccountTypeOf(parser.accounts, posting.account)

\* C23: every line of the current transaction has a debit and a credit that
\* are not negative; one of them is the absolute value of the amount and the
\* other is zero, so both are zero only for a zero amount
C23_OneSideOfEveryLine ==
    InTransactions =>
        \A i \in 1..Len(Txn.postings) :
            LET debit == TxnLines[i].debit_in_account_currency
                credit == TxnLines[i].credit_in_account_currency
            IN  /\ debit >= 0
                /\ credit >= 0
                /\ debit = 0 \/ credit = 0
                /\ debit + credit = Abs(Txn.postings[i].amount)
                /\ (debit = 0 /\ credit = 0) <=> Txn.postings[i].amount = 0

\* a transaction on a declared Income account with a positive first amount
\* and a negative second amount: a credit line and a debit line
C23_Witness ==
    /\ InTransactions
    /\ ClassOf(Txn.postings[1]) = "Income"
    /\ Txn.postings[1].amount = MaxAmount
    /\ Txn.postings[2].amount = -1
    /\ TxnLines[1].credit_in_account_currency = MaxAmount
    /\ TxnLines[2].debit_in_account_currency = 1

\* C24: every create-journal-entry request carries at least two lines
C24_CreatedEntriesHaveTwoLines ==
    \A i \in CallsOf("create_journal_entry") : Len(calls[i].lines) >= 2

\* C25: a step sends at most one create-journal-entry request, with all the
\* lines of the current transaction, and moves on to the next transaction,
\* whatever the outcome of the request and of the submit; the loop never
\* goes back, so no transaction gets a second request
C25_OneCreatePerTransaction ==
    /\ [][/\ Cardinality(NewCreates) <= 1
          /\ \A i \in NewCreates : calls'[i].lines = TxnLines /\ txn_i' = txn_i + 1
          /\ txn_i' >= txn_i]_vars
    /\ [](Cardinality(CallsOf("create_journal_entry")) <= txn_i - 1)

\* the end of a live run of two transactions in which the submit of the
\* first entry failed: one create request for each transaction
C25_Witness ==
    /\ pc = "Done"
    /\ ~dry_run
    /\ auto_submit
    /\ Len(parser.transactions) = 2
    /\ Len(calls) = 5
    /\ calls[1].op = "create_journal_entry" /\ calls[1].ok
    /\ calls[2].op = "get_journal_entry" /\ ~calls[2].ok
    /\ calls[3].op = "create_journal_entry" /\ calls[3].entry = 2

\* the create-journal-entry requests the backend accepted
AcceptedCreates == {i \in CallsOf("create_journal_entry") : calls[i].ok}

\* C26: at the summary created_count is the number of create-journal-entry
\* requests that succeeded
C26_CreatedCountIsAcceptedEntries ==
    pc = "Done" => created_count = Cardinality(AcceptedCreates)

\* C27: the parent derived for a declared account differs from the target
\* of the account, and no create-account request names the account as its
\* own parent
C27_ParentIsNotTheAccount ==
    /\ InAccounts => ParentErp # ErpAccountName
    /\ \A i \in CallsOf("create_account") : calls[i].parent # calls[i].account

\* the accounts created by the requests of the run
CreatedAccounts ==
    {calls[i].account : i \in {j \in CallsOf("create_account") : calls[j].ok}}

\* C28: two distinct declared accounts have distinct targets, and a live
\* run over a backend that holds nothing but what the run created sends one
\* create-account request for every declared account
C28_MappingIsInjectiveOnDeclared ==
    /\ \A j, k \in 1..Len(parser.accounts) :
          j # k => get_account_mapping(parser.accounts[j].name, CompanySuffix)
                      # get_account_mapping(parser.accounts[k].name, CompanySuffix)
    /\ (pc = "AccountsSynced" /\ ~dry_run /\ faults = 0 /\ accounts_db = CreatedAccounts)
          => Cardinality(CallsOf("create_account")) = Len(parser.accounts)

\* the transactions of the file that fail the balance check
UnbalancedTransactions ==
    {k \in 1..Len(parser.transactions) :
        ~validate_journal_entry(EntryLines(parser.transactions[k], parser))}

\* what a step adds to created_count and to error_count
CountedByStep == (created_count' - created_count) + (error_count' - error_count)

\* C29: a step of the transaction loop adds 1 to one of the two counts or
\* nothing to both, and in a live run always 1 to one; at the summary of a
\* live run the counts add up to the number of transactions, and at the
\* summary of a dry run created_count is 0 and error_count is the number of
\* unbalanced transactions
C29_EveryTransactionCountedOnce ==
    /\ [][/\ created_count' >= created_count
          /\ error_count' >= error_count
          /\ CountedByStep \in {0, 1}
          /\ (InTransactions /\ ~dry_run) => CountedByStep = 1]_vars
    /\ [](pc = "Done" /\ ~dry_run
              => created_count + error_count = Len(parser.transactions))
    /\ [](pc = "Done" /\ dry_run
              => /\ created_count = 0
                 /\ error_count = Cardinality(UnbalancedTransactions))

\* the summary of a live run of two transactions, one created and one
\* unbalanced
C29_Witness ==
    /\ pc = "Done"
    /\ ~dry_run
    /\ Len(parser.transactions) = 2
    /\ Cardinality(UnbalancedTransactions) = 1
    /\ created_count = 1
    /\ error_count = 1

\* what a line contributes to a total, as stated: the value of the
\* '..._in_account_currency' key, or of the plain key when that is absent
\* or zero
StatedAmount(line, main, plain) ==
    IF main \in DOMAIN line /\ line[main] # 0 THEN line[main]
    ELSE IF plain \in DOMAIN line THEN line[plain]
    ELSE 0

\* the stated total of the first n lines
RECURSIVE StatedTotal(_, _, _, _)
StatedTotal(lines, n, main, plain) ==
    IF n = 0 THEN 0
    ELSE StatedTotal(lines, n - 1, main, plain) + StatedAmount(lines[n], main, plain)

\* the stated difference of total debit and total credit of the list passed
StatedDifference ==
    Abs(StatedTotal(accounts_arg, Len(accounts_arg), "debit_in_account_currency", "debit")
          - StatedTotal(accounts_arg, Len(accounts_arg), "credit_in_account_currency",
                        "credit"))

\* C30: validate_journal_entry returns True exactly when the stated
\* difference is at most 0.01 and raises ValueError otherwise; the call
\* leaves the list as it was and sends nothing to the backend
C30_ValidateIsTheStatedCheck ==
    /\ [](validated = "True" => StatedDifference <= Tolerance)
    /\ [](validated = "ValueError" => StatedDifference > Tolerance)
    /\ [][validated' # validated
            => /\ validated' \in {"True", "ValueError"}
               /\ accounts_arg' = accounts_arg
               /\ calls' = calls
               /\ accounts_db' = accounts_db
               /\ entries_db' = entries_db]_vars

\* True for a list whose debit is read from the plain key, because the
\* first key holds 0, and whose totals differ by exactly 0.01
C30_Witness ==
    /\ validated = "True"
    /\ accounts_arg = <<[debit_in_account_currency |-> 0, debit |-> 2],
                        [debit_in_account_currency |-> 0,
                         credit_in_account_currency |-> 1]>>

====
